---------------------------- MODULE Spec2Model ----------------------------
(***************************************************************************)
(* A model of homemade.py: the five move-selection strategies (Sciasa,     *)
(* RandomMove, Alphabetical, FirstMove, ComboEngine).                      *)
(*                                                                         *)
(* The rules engine (python-chess) is an external collaborator.  It is     *)
(* represented by a miniature board game that keeps what the strategies    *)
(* consume: a mutable board object with a placement, a side to move and a  *)
(* move stack; legal_moves in a generation order that is not the string    *)
(* order; push/pop that undo each other; copy() that yields a fresh        *)
(* object; the uci and san serialisations of a move.  The board has the    *)
(* files a,b and the ranks 1..3, pawns and rooks, and no kings: a side     *)
(* with no movable piece has an empty legal-move set, which stands for     *)
(* checkmate and stalemate.                                                *)
(***************************************************************************)
EXTENDS Integers, Sequences, FiniteSets, TLC

VARIABLES
    strategy,          \* the engine class whose search() is called
    pc,                \* position inside the call
    heap,              \* the chess.Board objects, by identity; heap[board] is the caller's
    args,              \* Sciasa: the *args tuple, reduced to its first element
    depth,             \* Sciasa: local depth
    queue,             \* Sciasa: the deque of (board, depth, leading move)
    best_move,         \* Sciasa: local best_move
    best_evaluation,   \* Sciasa: local best_evaluation
    current_board,     \* Sciasa: identity of the dequeued board
    current_depth,     \* Sciasa: depth of the dequeued item
    leading_move,      \* Sciasa: leading move of the dequeued item
    moves_iter,        \* Sciasa: what the for loop over legal_moves still has to yield
    evaluated,         \* history: the items evaluated at the target depth, in order
    time_limit,        \* ComboEngine: the Limit argument
    draw_offered,      \* ComboEngine: the draw_offered argument
    root_moves,        \* ComboEngine: the caller's root_moves object
    my_time,           \* ComboEngine: local my_time
    my_inc,            \* ComboEngine: local my_inc
    branch,            \* ComboEngine: which arm of the time test ran
    entry,             \* history: the caller's board and root_moves at call entry
    result             \* what the call produced: nothing yet, a PlayResult, an exception

vars == <<strategy, pc, heap, args, depth, queue, best_move, best_evaluation,
          current_board, current_depth, leading_move, moves_iter, evaluated,
          time_limit, draw_offered, root_moves, my_time, my_inc, branch,
          entry, result>>

sciasaVars == <<args, depth, queue, best_move, best_evaluation, current_board,
                current_depth, leading_move, moves_iter, evaluated>>

comboVars == <<time_limit, draw_offered, root_moves, my_time, my_inc, branch>>

-----------------------------------------------------------------------------
(* Bounds of the model.                                                    *)

\* most pieces on a root board handed to Sciasa, RandomMove, Alphabetical, FirstMove
MaxPieces == 2

\* most pieces on a root board handed to ComboEngine
ComboMaxPieces == 1

\* largest depth passed explicitly to Sciasa.search
MaxDepth == 2

\* longest root_moves list handed to ComboEngine
MaxRootMoves == 2

-----------------------------------------------------------------------------
(* Strings are sequences of character codes, compared as Python compares   *)
(* str values.                                                             *)

FileNames == <<97, 98>>          \* "a", "b"
RankNames == <<49, 50, 51>>      \* "1", "2", "3"
NFiles == Len(FileNames)
NRanks == Len(RankNames)
Squares == 0 .. (NFiles * NRanks - 1)

square_file(sq) == sq % NFiles
square_rank(sq) == sq \div NFiles

RECURSIVE StrLess(_, _)
StrLess(s, t) ==
    IF t = <<>> THEN FALSE
    ELSE IF s = <<>> THEN TRUE
    ELSE IF Head(s) # Head(t) THEN Head(s) < Head(t)
    ELSE StrLess(Tail(s), Tail(t))

-----------------------------------------------------------------------------
(* The board game standing for python-chess.                               *)

PAWN == "P"
KNIGHT == "N"
BISHOP == "B"
ROOK == "R"
QUEEN == "Q"

WHITE == TRUE
BLACK == FALSE

NoPiece == [type |-> ".", color |-> WHITE]
Pieces == {[type |-> t, color |-> c] : t \in {PAWN, ROOK}, c \in {WHITE, BLACK}}

\* python None in a slot that otherwise holds a chess.Move
None == [from |-> -1, to |-> -1]
Moves == {[from |-> f, to |-> t] : f \in Squares, t \in Squares}

square_name(sq) == <<FileNames[square_file(sq) + 1], RankNames[square_rank(sq) + 1]>>

\* str(move): the long-form (UCI) notation
uci(m) == square_name(m.from) \o square_name(m.to)

\* board.san(move): the short-form notation; pawns have no letter, captures an "x"
san(b, m) ==
    LET p == b.placement[m.from]
        cap == b.placement[m.to] # NoPiece
    IN  IF p.type = ROOK
        THEN <<82>> \o square_name(m.from) \o (IF cap THEN <<120>> ELSE <<>>)
                    \o square_name(m.to)
        ELSE (IF cap THEN <<FileNames[square_file(m.from) + 1], 120>> ELSE <<>>)
                    \o square_name(m.to)

Enemy(b, sq) ==
    /\ b.placement[sq] # NoPiece
    /\ b.placement[sq].color # b.turn

\* the squares strictly between two squares of one file or one rank
Between(f, t) ==
    {s \in Squares :
        \/ /\ square_file(f) = square_file(t) /\ square_file(s) = square_file(f)
           /\ \/ square_rank(f) < square_rank(s) /\ square_rank(s) < square_rank(t)
              \/ square_rank(t) < square_rank(s) /\ square_rank(s) < square_rank(f)
        \/ /\ square_rank(f) = square_rank(t) /\ square_rank(s) = square_rank(f)
           /\ \/ square_file(f) < square_file(s) /\ square_file(s) < square_file(t)
              \/ square_file(t) < square_file(s) /\ square_file(s) < square_file(f)}

PawnMove(b, f, t) ==
    LET dir == IF b.turn = WHITE THEN 1 ELSE -1
    IN  /\ square_rank(t) = square_rank(f) + dir
        /\ \/ square_file(t) = square_file(f) /\ b.placement[t] = NoPiece
           \/ /\ square_file(t) - square_file(f) \in {-1, 1}
              /\ Enemy(b, t)

RookMove(b, f, t) ==
    /\ f # t
    /\ square_file(f) = square_file(t) \/ square_rank(f) = square_rank(t)
    /\ \A s \in Between(f, t) : b.placement[s] = NoPiece
    /\ b.placement[t] = NoPiece \/ Enemy(b, t)

LegalMoveSet(b) ==
    {m \in Moves :
        LET p == b.placement[m.from]
        IN  /\ p # NoPiece
            /\ p.color = b.turn
            /\ IF p.type = PAWN THEN PawnMove(b, m.from, m.to)
                            ELSE RookMove(b, m.from, m.to)}

\* the generator yields from the highest square down, not in string order
GenKey(m) == m.from * (NFiles * NRanks) + m.to

RECURSIVE GenOrder(_)
GenOrder(S) ==
    IF S = {} THEN <<>>
    ELSE LET m == CHOOSE x \in S : \A y \in S : GenKey(y) <= GenKey(x)
         IN  <<m>> \o GenOrder(S \ {m})

\* list(board.legal_moves)
legal_moves(b) == GenOrder(LegalMoveSet(b))

\* board.push(move)
push(b, m) ==
    [placement |-> [b.placement EXCEPT ![m.to] = b.placement[m.from],
                                       ![m.from] = NoPiece],
     turn      |-> ~b.turn,
     stack     |-> Append(b.stack, [move |-> m, captured |-> b.placement[m.to]])]

\* board.pop()
pop(b) ==
    LET top == b.stack[Len(b.stack)]
    IN  [placement |-> [b.placement EXCEPT ![top.move.from] = b.placement[top.move.to],
                                           ![top.move.to] = top.captured],
         turn      |-> ~b.turn,
         stack     |-> SubSeq(b.stack, 1, Len(b.stack) - 1)]

\* board.pieces(piece_type, color)
pieces(b, piece_type, color) ==
    {sq \in Squares : b.placement[sq] = [type |-> piece_type, color |-> color]}

-----------------------------------------------------------------------------
(* Python values used by the strategies.                                   *)

\* the identity of the chess.Board object the caller passes in
board == 1

\* board.copy(): a new object holding the same placement, turn and stack
copy(h, b) == [heap |-> Append(h, h[b]), ref |-> Len(h) + 1]

\* a queue seeded with the caller's board itself (board where board.copy() is meant)
RootNoCopy(h, b) == [heap |-> h, ref |-> b]

\* lines 68-70: the board of the first queue item is board.copy()
RootCopy(h, b) == copy(h, b)

\* line 98: the board of an appended item is current_board.copy()
ChildCopy(h, b) == copy(h, b)

\* a float: an integer, or float('-inf') / float('inf')
Finite(v) == [inf |-> 0, v |-> v]
NegInf == [inf |-> -1, v |-> 0]
PosInf == [inf |-> 1, v |-> 0]
Gt(x, y) == x.inf > y.inf \/ (x.inf = 0 /\ y.inf = 0 /\ x.v > y.v)
Lt(x, y) == Gt(y, x)

RECURSIVE SeqSum(_)
SeqSum(s) == IF s = <<>> THEN 0 ELSE Head(s) + SeqSum(Tail(s))

\* the dict piece_values, in insertion order
piece_types == <<PAWN, KNIGHT, BISHOP, ROOK, QUEEN>>
piece_values == [t \in {PAWN, KNIGHT, BISHOP, ROOK, QUEEN} |->
                    CASE t = PAWN -> 1
                      [] t = KNIGHT -> 3
                      [] t = BISHOP -> 3
                      [] t = ROOK -> 5
                      [] t = QUEEN -> 9]

\* Sciasa.evaluate_board
evaluate_board(b) ==
    SeqSum([i \in 1 .. Len(piece_types) |->
              Cardinality(pieces(b, piece_types[i], WHITE)) * piece_values[piece_types[i]]
            - Cardinality(pieces(b, piece_types[i], BLACK)) * piece_values[piece_types[i]]])

\* the initial best_evaluation
InitialBest(turn) == IF turn THEN NegInf ELSE PosInf

\* an update test that also accepts an equal evaluation (>= for >, <= for <)
ImprovesNonStrict(turn, evaluation, best) ==
    IF turn THEN ~Lt(evaluation, best) ELSE ~Gt(evaluation, best)

\* the test that guards the update of best_move
Improves(turn, evaluation, best) ==
    IF turn THEN Gt(evaluation, best) ELSE Lt(evaluation, best)

\* the leading move stored with a child: the third field of the appended tuple
ChildLeadingMove(parent_leading_move, move) == move

\* PlayResult(move, None) and PlayResult(move, None, draw_offered=...)
PlayResult(move, draw) == [kind |-> "PlayResult", move |-> move, draw_offered |-> draw]
\* an uncaught IndexError leaving search()
IndexError == [kind |-> "IndexError", move |-> None, draw_offered |-> FALSE]
Pending == [kind |-> "pending", move |-> None, draw_offered |-> FALSE]

Range(s) == {s[i] : i \in DOMAIN s}

\* list.sort(key=...): stable, ascending in the keys; key maps each element to its string
RECURSIVE InsertBy(_, _, _)
InsertBy(key, x, s) ==
    IF s = <<>> THEN <<x>>
    ELSE IF StrLess(key[x], key[Head(s)]) THEN <<x>> \o s
    ELSE <<Head(s)>> \o InsertBy(key, x, Tail(s))

RECURSIVE SortBy(_, _)
SortBy(key, s) ==
    IF s = <<>> THEN <<>>
    ELSE InsertBy(key, s[Len(s)], SortBy(key, SubSeq(s, 1, Len(s) - 1)))

\* a sort by str in descending order (reverse=True)
sort_key_str_reverse(moves) ==
    LET sorted == SortBy([m \in Range(moves) |-> uci(m)], moves)
    IN  [i \in 1 .. Len(sorted) |-> sorted[Len(sorted) + 1 - i]]

\* moves.sort(key=str)
sort_key_str(moves) == SortBy([m \in Range(moves) |-> uci(m)], moves)

\* moves.sort(key=board.san)
sort_key_san(b, moves) == SortBy([m \in Range(moves) |-> san(b, m)], moves)

-----------------------------------------------------------------------------
(* Sciasa.search                                                           *)

\* lines 63-74: the depth, the queue seeded with a copy of the root, the best so far
SciasaSearch ==
    /\ strategy = "Sciasa" /\ pc = "start"
    /\ depth' = IF args.isInt THEN args.v ELSE 2
    /\ LET c == RootCopy(heap, board)
       IN  /\ heap' = c.heap
           /\ queue' = <<[board |-> c.ref, depth |-> 0, leading_move |-> None]>>
    /\ best_move' = None
    /\ best_evaluation' = InitialBest(heap[board].turn)
    /\ pc' = "while"
    /\ UNCHANGED <<strategy, args, current_board, current_depth, leading_move,
                   moves_iter, evaluated, comboVars, entry, result>>

\* lines 76-93: an item at the target depth is evaluated
SciasaEvaluate ==
    /\ strategy = "Sciasa" /\ pc = "while" /\ queue # <<>>
    /\ LET item == Head(queue)
           evaluation == Finite(evaluate_board(heap[item.board]))
           better == Improves(heap[board].turn, evaluation, best_evaluation)
       IN  /\ item.depth >= depth
           /\ current_board' = item.board
           /\ current_depth' = item.depth
           /\ leading_move' = item.leading_move
           /\ best_evaluation' = IF better THEN evaluation ELSE best_evaluation
           /\ best_move' = IF better THEN item.leading_move ELSE best_move
           /\ evaluated' = Append(evaluated,
                                  [board |-> item.board,
                                   leading_move |-> item.leading_move,
                                   evaluation |-> evaluation.v])
    /\ queue' = Tail(queue)
    /\ UNCHANGED <<strategy, pc, heap, args, depth, moves_iter, comboVars,
                   entry, result>>

\* lines 76-80, 96: an item above the target depth starts the loop over its legal moves
SciasaExpand ==
    /\ strategy = "Sciasa" /\ pc = "while" /\ queue # <<>>
    /\ LET item == Head(queue)
       IN  /\ item.depth < depth
           /\ current_board' = item.board
           /\ current_depth' = item.depth
           /\ leading_move' = item.leading_move
           /\ moves_iter' = legal_moves(heap[item.board])
    /\ queue' = Tail(queue)
    /\ pc' = "for"
    /\ UNCHANGED <<strategy, heap, args, depth, best_move, best_evaluation,
                   evaluated, comboVars, entry, result>>

\* line 97: current_board.push(move)
SciasaPush ==
    /\ strategy = "Sciasa" /\ pc = "for" /\ moves_iter # <<>>
    /\ heap' = [heap EXCEPT ![current_board] = push(@, Head(moves_iter))]
    /\ pc' = "pushed"
    /\ UNCHANGED <<strategy, sciasaVars, comboVars, entry, result>>

\* line 98: queue.append((current_board.copy(), current_depth + 1, move))
SciasaAppend ==
    /\ strategy = "Sciasa" /\ pc = "pushed"
    /\ LET c == ChildCopy(heap, current_board)
       IN  /\ heap' = c.heap
           /\ queue' = Append(queue,
                              [board |-> c.ref,
                               depth |-> current_depth + 1,
                               leading_move |->
                                   ChildLeadingMove(leading_move, Head(moves_iter))])
    /\ pc' = "appended"
    /\ UNCHANGED <<strategy, args, depth, best_move, best_evaluation, current_board,
                   current_depth, leading_move, moves_iter, evaluated, comboVars,
                   entry, result>>

\* line 99: current_board.pop(), and the loop moves to the next legal move
SciasaPop ==
    /\ strategy = "Sciasa" /\ pc = "appended"
    /\ heap' = [heap EXCEPT ![current_board] = pop(@)]
    /\ moves_iter' = Tail(moves_iter)
    /\ pc' = "for"
    /\ UNCHANGED <<strategy, args, depth, queue, best_move, best_evaluation,
                   current_board, current_depth, leading_move, evaluated, comboVars,
                   entry, result>>

\* line 96: the legal moves are exhausted, back to the while test
SciasaForEnd ==
    /\ strategy = "Sciasa" /\ pc = "for" /\ moves_iter = <<>>
    /\ pc' = "while"
    /\ UNCHANGED <<strategy, heap, sciasaVars, comboVars, entry, result>>

\* lines 76, 101: the queue is empty, return PlayResult(best_move, None)
SciasaReturn ==
    /\ strategy = "Sciasa" /\ pc = "while" /\ queue = <<>>
    /\ result' = PlayResult(best_move, FALSE)
    /\ pc' = "done"
    /\ UNCHANGED <<strategy, heap, sciasaVars, comboVars, entry>>

-----------------------------------------------------------------------------
(* RandomMove.search, Alphabetical.search, FirstMove.search                *)

\* line 111: random.choice(list(board.legal_moves)); an empty list raises IndexError
RandomMoveSearch ==
    /\ strategy = "RandomMove" /\ pc = "start"
    /\ LET moves == legal_moves(heap[board])
       IN  IF moves = <<>>
           THEN result' = IndexError
           ELSE \E i \in 1 .. Len(moves) : result' = PlayResult(moves[i], FALSE)
    /\ pc' = "done"
    /\ UNCHANGED <<strategy, heap, sciasaVars, comboVars, entry>>

\* lines 121-123: sort by san, take moves[0]; an empty list raises IndexError
AlphabeticalSearch ==
    /\ strategy = "Alphabetical" /\ pc = "start"
    /\ LET moves == sort_key_san(heap[board], legal_moves(heap[board]))
       IN  result' = IF moves = <<>> THEN IndexError ELSE PlayResult(moves[1], FALSE)
    /\ pc' = "done"
    /\ UNCHANGED <<strategy, heap, sciasaVars, comboVars, entry>>

\* lines 133-135: sort by str, take moves[0]; an empty list raises IndexError
FirstMoveSearch ==
    /\ strategy = "FirstMove" /\ pc = "start"
    /\ LET moves == sort_key_str(legal_moves(heap[board]))
       IN  result' = IF moves = <<>> THEN IndexError ELSE PlayResult(moves[1], FALSE)
    /\ pc' = "done"
    /\ UNCHANGED <<strategy, heap, sciasaVars, comboVars, entry>>

-----------------------------------------------------------------------------
(* ComboEngine.search                                                      *)

\* a Limit field: an int, or something that is no int (None, a float)
IntVal(v) == [isInt |-> TRUE, v |-> v]
NotInt == [isInt |-> FALSE, v |-> 0]

\* a root_moves argument: a list of moves, or something that is no list
List(items) == [isList |-> TRUE, items |-> items]
NotList == [isList |-> FALSE, items |-> <<>>]

\* lines 163-187: my_time and my_inc
MyClock(limit, turn) ==
    IF limit.time.isInt
    THEN [my_time |-> limit.time.v, my_inc |-> 0]
    ELSE IF turn = WHITE
    THEN [my_time |-> IF limit.white_clock.isInt THEN limit.white_clock.v ELSE 0,
          my_inc  |-> IF limit.white_inc.isInt THEN limit.white_inc.v ELSE 0]
    ELSE [my_time |-> IF limit.black_clock.isInt THEN limit.black_clock.v ELSE 0,
          my_inc  |-> IF limit.black_inc.isInt THEN limit.black_inc.v ELSE 0]

\* a candidate list that ignores root_moves
PossibleMovesIgnoreList(rm, b) == [items |-> legal_moves(b), isRootMoves |-> FALSE]

\* a candidate list that tests root_moves for truth, so that an empty list
\* falls back to the legal moves
PossibleMovesIfNonEmpty(rm, b) ==
    IF rm.isList /\ rm.items # <<>>
    THEN [items |-> rm.items, isRootMoves |-> TRUE]
    ELSE [items |-> legal_moves(b), isRootMoves |-> FALSE]

\* lines 189-193: possible_moves, and whether it is the caller's list object
PossibleMoves(rm, b) ==
    IF rm.isList
    THEN [items |-> rm.items, isRootMoves |-> TRUE]
    ELSE [items |-> legal_moves(b), isRootMoves |-> FALSE]

\* the time test with floor division (my_time // 60)
GenerousTimeFloorDiv(t, inc) == (t \div 60) + inc > 10

\* line 195: my_time / 60 + my_inc > 10, in exact fractions
GenerousTime(t, inc) ==
    LET quotient == [num |-> t, den |-> 60]
        total == [num |-> quotient.num + inc * quotient.den, den |-> quotient.den]
    IN  total.num > 10 * total.den

\* lines 195-197, 202: the random arm; random.choice of an empty list raises IndexError
ComboEngineRandom ==
    /\ strategy = "ComboEngine" /\ pc = "start"
    /\ LET clock == MyClock(time_limit, heap[board].turn)
           possible_moves == PossibleMoves(root_moves, heap[board])
       IN  /\ my_time' = clock.my_time
           /\ my_inc' = clock.my_inc
           /\ GenerousTime(clock.my_time, clock.my_inc)
           /\ IF possible_moves.items = <<>>
              THEN result' = IndexError
              ELSE \E i \in 1 .. Len(possible_moves.items) :
                       result' = PlayResult(possible_moves.items[i], draw_offered)
    /\ branch' = "random"
    /\ pc' = "done"
    /\ UNCHANGED <<strategy, heap, sciasaVars, time_limit, draw_offered, root_moves,
                   entry>>

\* lines 198-202: the sorted arm; possible_moves is sorted in place, then [0] is taken
ComboEngineSorted ==
    /\ strategy = "ComboEngine" /\ pc = "start"
    /\ LET clock == MyClock(time_limit, heap[board].turn)
           possible_moves == PossibleMoves(root_moves, heap[board])
           sorted == sort_key_str(possible_moves.items)
       IN  /\ my_time' = clock.my_time
           /\ my_inc' = clock.my_inc
           /\ ~GenerousTime(clock.my_time, clock.my_inc)
           /\ root_moves' = IF possible_moves.isRootMoves THEN List(sorted)
                                                          ELSE root_moves
           /\ result' = IF sorted = <<>> THEN IndexError
                                         ELSE PlayResult(sorted[1], draw_offered)
    /\ branch' = "sorted"
    /\ pc' = "done"
    /\ UNCHANGED <<strategy, heap, sciasaVars, time_limit, draw_offered, entry>>

-----------------------------------------------------------------------------
(* The calls the model makes.                                              *)

Placements(n) ==
    {pl \in [Squares -> Pieces \cup {NoPiece}] :
        Cardinality({sq \in Squares : pl[sq] # NoPiece}) <= n}

\* the boards a caller passes in: up to n pieces, either side to move
Roots(n) ==
    {[placement |-> pl, turn |-> t, stack |-> <<>>] :
        pl \in Placements(n), t \in {WHITE, BLACK}}

\* no depth argument, or an int from 1 to MaxDepth
DepthArgs == {NotInt} \cup {IntVal(d) : d \in 1 .. MaxDepth}

\* (clock, increment) of one side: 540/60 + 1 = 10 and 0 + 10 = 10 are not above
\* 10, 540/60 + 2 = 11 and 660/60 + 0 = 11 are
ClockPairs ==
    {<<IntVal(540), IntVal(1)>>, <<IntVal(540), IntVal(2)>>,
     <<NotInt, IntVal(10)>>, <<IntVal(660), NotInt>>}

\* no time and the two sides' clocks, or a time with clocks that say the opposite
TimeLimits ==
    {[time |-> NotInt, white_clock |-> w[1], white_inc |-> w[2],
      black_clock |-> b[1], black_inc |-> b[2]] :
        w \in ClockPairs, b \in ClockPairs}
    \cup
    {[time |-> IntVal(t), white_clock |-> IntVal(540),
      white_inc |-> IntVal(IF t > 600 THEN 1 ELSE 2),
      black_clock |-> IntVal(540),
      black_inc |-> IntVal(IF t > 600 THEN 1 ELSE 2)] :
        t \in {300, 600, 630, 700}}

\* no list, or a list of up to MaxRootMoves different legal moves in any order
RootMoveArgs(b) ==
    {NotList} \cup
    {List(s) : s \in {q \in UNION {[1 .. n -> LegalMoveSet(b)] : n \in 0 .. MaxRootMoves} :
                        \A i, j \in DOMAIN q : i # j => q[i] # q[j]}}

InitCommon(root) ==
    /\ pc = "start"
    /\ heap = <<root>>
    /\ result = Pending
    /\ depth = 0
    /\ queue = <<>>
    /\ best_move = None
    /\ best_evaluation = Finite(0)
    /\ current_board = board
    /\ current_depth = 0
    /\ leading_move = None
    /\ moves_iter = <<>>
    /\ evaluated = <<>>
    /\ my_time = 0
    /\ my_inc = 0
    /\ branch = "none"

InitSciasa ==
    \E root \in Roots(MaxPieces) :
        /\ InitCommon(root)
        /\ strategy = "Sciasa"
        /\ args \in DepthArgs
        /\ time_limit = [time |-> NotInt, white_clock |-> NotInt, white_inc |-> NotInt,
                         black_clock |-> NotInt, black_inc |-> NotInt]
        /\ draw_offered = FALSE
        /\ root_moves = NotList
        /\ entry = [board |-> root, root_moves |-> root_moves]

InitSimple ==
    \E root \in Roots(MaxPieces) :
        /\ InitCommon(root)
        /\ strategy \in {"RandomMove", "Alphabetical", "FirstMove"}
        /\ args = NotInt
        /\ time_limit = [time |-> NotInt, white_clock |-> NotInt, white_inc |-> NotInt,
                         black_clock |-> NotInt, black_inc |-> NotInt]
        /\ draw_offered = FALSE
        /\ root_moves = NotList
        /\ entry = [board |-> root, root_moves |-> root_moves]

InitCombo ==
    \E root \in Roots(ComboMaxPieces) :
        /\ InitCommon(root)
        /\ strategy = "ComboEngine"
        /\ args = NotInt
        /\ time_limit \in TimeLimits
        /\ draw_offered \in BOOLEAN
        /\ root_moves \in RootMoveArgs(root)
        /\ entry = [board |-> root, root_moves |-> root_moves]

Init == InitSciasa \/ InitSimple \/ InitCombo

NextSciasa ==
    \/ SciasaSearch
    \/ SciasaEvaluate
    \/ SciasaExpand
    \/ SciasaPush
    \/ SciasaAppend
    \/ SciasaPop
    \/ SciasaForEnd
    \/ SciasaReturn

NextCombo ==
    \/ ComboEngineRandom
    \/ ComboEngineSorted

Next ==
    \/ NextSciasa
    \/ RandomMoveSearch
    \/ AlphabeticalSearch
    \/ FirstMoveSearch
    \/ NextCombo

\* every strategy
Spec == Init /\ [][Next]_vars

\* Sciasa alone
SpecSciasa == InitSciasa /\ [][NextSciasa]_vars

\* ComboEngine alone
SpecCombo == InitCombo /\ [][NextCombo]_vars

-----------------------------------------------------------------------------
(* Vocabulary of the properties.                                           *)

RootLegal == LegalMoveSet(entry.board)

Returned == pc = "done" /\ result.kind = "PlayResult"

\* the candidate list of a ComboEngine call, from the arguments at call entry
Candidates ==
    IF entry.root_moves.isList THEN Range(entry.root_moves.items) ELSE RootLegal

\* the least move of a non-empty set under the order of the long-form strings
MinLongForm(S) == CHOOSE m \in S : \A n \in S : ~StrLess(uci(n), uci(m))

\* the positions d plies below b, in breadth-first order over generation order
RECURSIVE Level(_, _)
Level(b, d) ==
    IF d = 0 THEN <<b>>
    ELSE LET parents == Level(b, d - 1)
             children(x) == [i \in 1 .. Len(legal_moves(x)) |-> push(x, legal_moves(x)[i])]
             Cat[i \in 0 .. Len(parents)] ==
                 IF i = 0 THEN <<>> ELSE Cat[i - 1] \o children(parents[i])
         IN  Cat[Len(parents)]

\* the first index of `evaluated` whose evaluation is the best for the side to move at the root
FirstBest ==
    LET vals == {evaluated[i].evaluation : i \in DOMAIN evaluated}
        best == IF entry.board.turn = WHITE
                THEN CHOOSE v \in vals : \A w \in vals : w <= v
                ELSE CHOOSE v \in vals : \A w \in vals : v <= w
    IN  CHOOSE i \in DOMAIN evaluated :
            /\ evaluated[i].evaluation = best
            /\ \A j \in DOMAIN evaluated : evaluated[j].evaluation = best => i <= j

-----------------------------------------------------------------------------
(* The claims.                                                             *)

\* C1: from a position with legal moves, the move a strategy returns (ComboEngine
\* called without a root-move list) is a legal move of the root position.  Stated
\* for the calls that return a move; a null move is the subject of C2.
C1_ReturnedMoveIsLegalAtRoot ==
    (Returned /\ RootLegal # {} /\ ~entry.root_moves.isList /\ result.move # None)
        => result.move \in RootLegal

\* C2: from a root position with a legal move, Sciasa.search ends with a move
\* that is not null, also when every line of play ends above the target depth.
C2_SciasaNeverReturnsNull ==
    (strategy = "Sciasa" /\ pc = "done" /\ RootLegal # {})
        => (result.kind = "PlayResult" /\ result.move # None)

\* C3: from a root position without legal moves, every strategy's call ends in
\* an error and returns no result.
C3_NoLegalMoveIsAnError ==
    (pc = "done" /\ RootLegal = {}) => result.kind # "PlayResult"

\* C4: ComboEngine takes the random arm exactly when my_time + 60 * my_inc > 600
\* (700/0 is random; 600/0 and 300/0 are not); the random arm returns a
\* candidate, the other arm the least candidate in long-form order.
C4_BranchByTimeTest ==
    (strategy = "ComboEngine" /\ pc = "done") =>
        /\ branch = "random" <=> my_time + 60 * my_inc > 600
        /\ branch = "sorted" <=> my_time + 60 * my_inc <= 600
        /\ (my_time = 700 /\ my_inc = 0) => branch = "random"
        /\ (my_time \in {300, 600} /\ my_inc = 0) => branch = "sorted"
        /\ LET candidates == Candidates
           IN  candidates # {} =>
                   /\ result.kind = "PlayResult"
                   /\ branch = "random" => result.move \in candidates
                   /\ branch = "sorted" => result.move = MinLongForm(candidates)

\* C4 witness: the boundary 600/0 took the sorted arm and the move returned was
\* not the first of the candidate list as generated or passed in
C4_Witness ==
    /\ strategy = "ComboEngine" /\ pc = "done"
    /\ my_time = 600 /\ my_inc = 0 /\ branch = "sorted"
    /\ result.kind = "PlayResult"
    /\ result.move = MinLongForm(Candidates)
    /\ result.move # PossibleMoves(entry.root_moves, entry.board).items[1]

\* C5: with a root-move list that is a non-empty strict subset of the legal
\* moves, ComboEngine returns a member of the list, in either arm.
C5_RestrictionRespected ==
    (/\ strategy = "ComboEngine" /\ pc = "done"
     /\ entry.root_moves.isList
     /\ entry.root_moves.items # <<>>
     /\ LET legal == RootLegal
        IN  /\ Range(entry.root_moves.items) \subseteq legal
            /\ Range(entry.root_moves.items) # legal)
        => (result.kind = "PlayResult" /\ result.move \in Range(entry.root_moves.items))

\* C5 witness: the sorted arm returned a listed move while a legal move outside
\* the list comes before it in long-form order
C5_Witness ==
    /\ strategy = "ComboEngine" /\ pc = "done" /\ branch = "sorted"
    /\ entry.root_moves.isList
    /\ entry.root_moves.items # <<>>
    /\ Range(entry.root_moves.items) \subseteq RootLegal
    /\ Range(entry.root_moves.items) # RootLegal
    /\ result.move \in Range(entry.root_moves.items)
    /\ result.move # MinLongForm(RootLegal)

\* C6 as claimed: with an empty root-move list and a position that has legal
\* moves, ComboEngine returns one of the legal moves.
C6_EmptyListFallsBackToLegalMoves ==
    (/\ strategy = "ComboEngine" /\ pc = "done"
     /\ entry.root_moves.isList /\ entry.root_moves.items = <<>>
     /\ RootLegal # {})
        => (result.kind = "PlayResult" /\ result.move \in RootLegal)

\* C6 as amended: a root-move list is the candidate list whenever it is a list;
\* an empty list makes the call raise IndexError in either arm; the legal moves
\* are the candidates only when no list is passed.
C6_EmptyListRaises ==
    (strategy = "ComboEngine" /\ pc = "done") =>
        /\ (entry.root_moves.isList /\ entry.root_moves.items = <<>>)
               => result = IndexError
        /\ (entry.root_moves.isList /\ entry.root_moves.items # <<>>)
               => (result.kind = "PlayResult"
                   /\ result.move \in Range(entry.root_moves.items))
        /\ (~entry.root_moves.isList /\ RootLegal # {})
               => (result.kind = "PlayResult" /\ result.move \in RootLegal)

\* C6 witness: an empty list on a position with legal moves ended in IndexError
C6_Witness ==
    /\ strategy = "ComboEngine" /\ pc = "done"
    /\ entry.root_moves.isList /\ entry.root_moves.items = <<>>
    /\ RootLegal # {}
    /\ result = IndexError

\* C7: during and after Sciasa.search the caller's board equals its value at
\* call entry; every queued board is an object of its own, different from the
\* caller's; each push on the dequeued board is undone before the next move.
C7_CallerBoardUntouched ==
    strategy = "Sciasa" =>
        /\ heap[board] = entry.board
        /\ \A i \in DOMAIN queue :
               /\ queue[i].board # board
               /\ \A j \in DOMAIN queue : queue[i].board = queue[j].board => i = j
               /\ Len(heap[queue[i].board].stack) = queue[i].depth
        /\ pc \in {"for", "pushed", "appended"} =>
               /\ current_board # board
               /\ \A i \in DOMAIN queue : queue[i].board # current_board
        /\ pc = "for" => Len(heap[current_board].stack) = current_depth
        /\ pc \in {"pushed", "appended"} =>
               Len(heap[current_board].stack) = current_depth + 1

\* C7 witness: a speculative move is on a board one ply below the root
C7_Witness ==
    /\ strategy = "Sciasa" /\ pc = "pushed" /\ current_depth = 1
    /\ heap[current_board].placement # entry.board.placement
    /\ heap[board] = entry.board

\* C8: the leading move of every queued item of depth >= 1 is the move played
\* from the root on the path to it.
C8_LeadingMoveIsRootMove ==
    strategy = "Sciasa" =>
        \A i \in DOMAIN queue :
            queue[i].depth >= 1 =>
                queue[i].leading_move = heap[queue[i].board].stack[1].move

\* C9: the items evaluated are the positions at the target depth in
\* breadth-first order, and when there is one the move returned is the leading
\* move of the first whose evaluation is the greatest (White to move at the
\* root) or the least (Black to move at the root); at depth 1 with one legal
\* move that move is returned.
C9_FirstBestForRootSide ==
    (strategy = "Sciasa" /\ pc = "done") =>
        /\ LET frontier == Level(entry.board, depth)
           IN  /\ Len(evaluated) = Len(frontier)
               /\ \A i \in DOMAIN evaluated :
                      /\ heap[evaluated[i].board].placement = frontier[i].placement
                      /\ evaluated[i].evaluation = evaluate_board(frontier[i])
        /\ evaluated # <<>> =>
               result = PlayResult(evaluated[FirstBest].leading_move, FALSE)
        /\ (depth = 1 /\ Cardinality(RootLegal) = 1) => result.move \in RootLegal

\* C9 witness: Black to move at the root, the best item is not the first
\* evaluated and a later item ties with it
C9_Witness ==
    /\ strategy = "Sciasa" /\ pc = "done"
    /\ entry.board.turn = BLACK
    /\ evaluated # <<>>
    /\ FirstBest > 1
    /\ \E j \in DOMAIN evaluated :
           /\ j > FirstBest
           /\ evaluated[j].evaluation = evaluated[FirstBest].evaluation
           /\ evaluated[j].leading_move # evaluated[FirstBest].leading_move
    /\ result.move = evaluated[FirstBest].leading_move

\* C10: ComboEngine leaves the caller's root-move list with the elements it
\* had; the sorted arm leaves it in ascending long-form order, the random arm
\* leaves it as it was.
C10_RootMovesOnlyReordered ==
    (strategy = "ComboEngine" /\ entry.root_moves.isList) =>
        /\ root_moves.isList
        /\ Len(root_moves.items) = Len(entry.root_moves.items)
        /\ \A m \in Range(root_moves.items) \cup Range(entry.root_moves.items) :
               Cardinality({i \in DOMAIN root_moves.items : root_moves.items[i] = m})
             = Cardinality({i \in DOMAIN entry.root_moves.items :
                                entry.root_moves.items[i] = m})
        /\ branch = "sorted" =>
               \A i, j \in DOMAIN root_moves.items :
                   i < j => ~StrLess(uci(root_moves.items[j]), uci(root_moves.items[i]))
        /\ branch # "sorted" => root_moves = entry.root_moves

\* C10 witness: the sorted arm reordered the caller's list
C10_Witness ==
    /\ strategy = "ComboEngine" /\ pc = "done" /\ branch = "sorted"
    /\ entry.root_moves.isList
    /\ root_moves # entry.root_moves

=============================================================================
